---- MODULE Spec2Model ----
(***************************************************************************)
(* Model of cylc/uiserver/handlers.py: the Cylc authorisation layer of     *)
(* CylcAppHandler and the three handlers built on it (UserProfileHandler,  *)
(* UIServerGraphQLHandler, SubscriptionHandler).                           *)
(*                                                                         *)
(* One behaviour follows one handler object, i.e. one HTTP request or one  *)
(* websocket connection, from before its construction to its end.  The     *)
(* handler class, the request's inputs (what the base class resolves the   *)
(* user to, the offered sub-protocols, the HTTP method) are chosen in      *)
(* Init.  Inbound frames are opaque payloads; the model names each frame   *)
(* by its arrival number 1, 2, 3, ...                                      *)
(* PairSpec adds a second websocket connection, open in the same process,  *)
(* whose frames are named -1, -2, -3, ...                                  *)
(***************************************************************************)
EXTENDS Integers, Sequences, FiniteSets, TLC

\* ------------------------------------------------------------------ bounds

\* Frames the transport delivers on one connection in one behaviour.
MaxFrames == 102

\* Frames passed to, and frames taken from, a second connection.
MaxPeerFrames == 2

\* ------------------------------------------------------- program constants

\* Queue(100): the maxsize of the connection's asyncio.Queue.
QueueMaxsize == 100

\* graphql_ws.constants.GRAPHQL_WS, the sub-protocol token.
GRAPHQL_WS == "graphql-ws"

\* ME = getpass.getuser(): the account the server runs as.
ME == "alice"

\* --------------------------------------------------------------- inputs

Names == {"alice", "bob"}

\* What CylcAppHandler.__bases__[0].get_current_user can return: None, a
\* hub user model (a dict) or a token-authenticated user (not a dict).
NoUser == [resolved |-> FALSE, name |-> "", hub |-> FALSE]

Principals == [resolved : {TRUE}, name : Names, hub : BOOLEAN]

\* The Sec-WebSocket-Protocol lists a client may offer.
Offers == {<<>>, <<"foo">>, <<GRAPHQL_WS, "foo">>}

HandlerClasses == {"SubscriptionHandler", "UIServerGraphQLHandler",
                   "UserProfileHandler"}

Methods == {"GET", "POST"}

Range(s) == {s[i] : i \in 1..Len(s)}

VARIABLES
    kind,        \* the handler's class
    method,      \* request.method
    baseUser,    \* what the base class's get_current_user returns
    offered,     \* sub-protocols offered in the handshake request
    authoriser,  \* which _authorise the handler object resolves to
    state,       \* where the request / connection is in its life
    cached,      \* hasattr(self, "_current_user")
    currentUser, \* self._current_user
    authLog,     \* calls made so far: "resolve" (base get_current_user),
                 \* "authorise" (CylcAppHandler.authorise)
    response,    \* the HTTP status and reason the request ended with
    queueObj,    \* which Queue object self.queue refers to (0: none yet)
    queue,       \* the frames held by self.queue, oldest first
    resolvers,   \* self.resolvers
    selected,    \* the sub-protocol chosen in the handshake
    tasks,       \* calls handed to the engine (spawn_callback, schema.execute)
    sent,        \* frames passed to on_message so far (frame k is the k-th)
    held,        \* the frame of the on_message call in flight (0: none)
    prodPc,      \* on_message: "idle", "waiting" (parked in put), "woken"
    consPc,      \* engine task: "idle" (running), "waiting" (parked in
                 \* recv), "woken", "dead" (ended by an exception)
    received,    \* frames returned by recv / recv_nowait, in order
    raised,      \* the exception the last recv_nowait raised ("" if none)
    phase,       \* "filling": no consumer call yet; "draining": consumer
                 \* calls and no on_message since; "mixed": otherwise
    principalOwner, \* the 'owner' entry of the object the base class's
                 \* get_current_user returned ("": it has no such entry)
    written,     \* the profile UserProfileHandler.get wrote
    peerBacklog, \* a second open connection: frames queued on it at the start
    peerQueue,   \* the frames held by the second connection's self.queue
    peerSent,    \* frames passed to the second connection's on_message
    peerHeld,    \* the frame of its on_message call in flight (0: none)
    peerProdPc,  \* its on_message: "idle", "waiting", "woken"
    peerConsPc,  \* its engine task: "idle", "waiting", "woken"
    peerReceived \* frames its recv / recv_nowait returned, in order

vars == <<kind, method, baseUser, offered, authoriser, state, cached,
          currentUser, authLog, response, queueObj, queue, resolvers,
          selected, tasks, sent, held, prodPc, consPc, received, raised,
          phase, principalOwner, written, peerBacklog, peerQueue, peerSent,
          peerHeld, peerProdPc, peerConsPc, peerReceived>>

requestVars == <<kind, method, baseUser, offered, authoriser>>

profileVars == <<principalOwner, written>>

peerVars == <<peerBacklog, peerQueue, peerSent, peerHeld, peerProdPc,
              peerConsPc, peerReceived>>

NoProfile == [kind |-> "", name |-> "", server |-> "", owner |-> ""]

NoResponse == [status |-> 0, reason |-> ""]

\* The reply that completes a websocket handshake.
SwitchingProtocols == [status |-> 101, reason |-> "Switching Protocols"]

\* ----------------------------------------------------- CylcAppHandler

\* The check the source keeps commented out: only the server's own account.
_authorise_owner_only(user) == user.name = ME

\* CylcAppHandler._authorise: the placeholder policy.
_authorise(user) == TRUE

\* self._authorise(user) as the handler object dispatches it: the method of
\* CylcAppHandler, or that of a subclass that overrides it to refuse.
Decision(user) ==
    IF authoriser = "CylcAppHandler" THEN _authorise(user) ELSE FALSE

\* authorise without its raise.
authorise_silently(user) == NoResponse

\* CylcAppHandler.authorise: the error it raises, NoResponse if none.
authorise(user) ==
    IF ~Decision(user)
    THEN [status |-> 403, reason |-> "authorisation insufficient"]
    ELSE NoResponse

\* CylcAppHandler.get_current_user: the calls it makes in order, the error
\* that escapes it and the user it returns when none does.
get_current_user(base) ==
    [calls |-> <<"resolve", "authorise">>,
     error |-> authorise(base),
     user  |-> base]

\* tornado's RequestHandler.current_user property, read by the
\* authenticated decorators: get_current_user runs on the first read only
\* and its result is kept in self._current_user unless it raised.
current_user ==
    IF cached
    THEN [calls |-> <<>>, error |-> NoResponse, cached |-> TRUE,
          user |-> currentUser]
    ELSE LET r == get_current_user(baseUser)
         IN  [calls  |-> r.calls,
              error  |-> r.error,
              cached |-> r.error = NoResponse,
              user   |-> IF r.error = NoResponse THEN r.user
                         ELSE currentUser]

\* tornado.web.authenticated: the rejection it ends the request with,
\* NoResponse when the wrapped method runs.
web_authenticated ==
    LET cu == current_user
    IN  IF cu.error # NoResponse THEN cu.error
        ELSE IF cu.user.resolved THEN NoResponse
        ELSE IF method \in {"GET", "HEAD"}
             THEN [status |-> 302, reason |-> "Found"]
             ELSE [status |-> 403, reason |-> "Forbidden"]

\* cylc.uiserver.websockets.authenticated: the error it raises, NoResponse
\* when the wrapped method runs.
websockets_authenticated ==
    LET cu == current_user
    IN  IF cu.error # NoResponse THEN cu.error
        ELSE IF cu.user.resolved THEN NoResponse
        ELSE [status |-> 403, reason |-> "Forbidden"]

\* What reading current_user leaves behind, whatever the decorator decides.
ReadCurrentUser ==
    /\ authLog' = authLog \o current_user.calls
    /\ cached' = current_user.cached
    /\ currentUser' = current_user.user

InitRequest ==
    /\ kind \in HandlerClasses
    /\ method \in (IF kind = "SubscriptionHandler" THEN {"GET"} ELSE Methods)
    /\ baseUser \in Principals \cup {NoUser}
    /\ offered \in (IF kind = "SubscriptionHandler" THEN Offers ELSE {<<>>})
    /\ state = "REQUEST"
    /\ cached = FALSE
    /\ currentUser = NoUser
    /\ authLog = <<>>
    /\ response = NoResponse
    /\ queueObj = 0
    /\ queue = <<>>
    /\ resolvers = "unset"
    /\ selected = ""
    /\ tasks = <<>>
    /\ sent = 0
    /\ held = 0
    /\ prodPc = "idle"
    /\ consPc = "idle"
    /\ received = <<>>
    /\ raised = ""
    /\ phase = "filling"
    /\ principalOwner = ""
    /\ written = NoProfile

\* The process serves no other connection.
NoPeer ==
    /\ peerBacklog = 0
    /\ peerQueue = <<>>
    /\ peerSent = 0
    /\ peerHeld = 0
    /\ peerProdPc = "idle"
    /\ peerConsPc = "idle"
    /\ peerReceived = <<>>

\* The handlers as the module defines them.
Init ==
    /\ InitRequest
    /\ NoPeer
    /\ authoriser = "CylcAppHandler"

\* ------------------------------------------------ asyncio.Queue, as used

\* full() one item late.
full_one_late(q) == Len(q) > QueueMaxsize

\* A queue that never reports itself full.
full_never(q) == FALSE

\* Queue.full()
full(q) == Len(q) >= QueueMaxsize

\* Queue.empty()
empty(q) == Len(q) = 0

\* A put at the wrong end of the deque.
QueuePutLeft(q, item) == <<item>> \o q

\* Queue._put: the new item goes to the right end of the deque.
QueuePut(q, item) == Append(q, item)

\* Queue._get: the item at the left end of the deque is taken.
QueueItem(q) == Head(q)

QueueRest(q) == Tail(q)

\* A wake-up that is lost: the waiter's future is never resolved.
WakeUpLost(pc) == pc

\* Queue._wakeup_next: the parked waiter's future is resolved.
WakeUp(pc) == IF pc = "waiting" THEN "woken" ELSE pc

\* Queue.put_nowait(item)
put_nowait(item) ==
    /\ queue' = QueuePut(queue, item)
    /\ consPc' = WakeUp(consPc)

\* A put on a full queue that gives the item up instead of waiting.
PutWhenFullDrop(item) ==
    UNCHANGED <<queue, consPc, held, prodPc>>

\* Queue.put(item) on a full queue: the caller parks on a putter future,
\* holding the item.
PutWhenFull(item) ==
    /\ held' = item
    /\ prodPc' = "waiting"
    /\ UNCHANGED <<queue, consPc>>

\* Queue.get_nowait() on a queue that is not empty
get_nowait ==
    /\ received' = Append(received, QueueItem(queue))
    /\ queue' = QueueRest(queue)
    /\ prodPc' = WakeUp(prodPc)

\* --------------------------------------------------- SubscriptionHandler

\* SubscriptionHandler.select_subprotocol(subprotocols)
select_subprotocol(subprotocols) == GRAPHQL_WS

\* The subscription context built like the query handler's.
Subscription_context_wider ==
    [graphql_params |-> "graphql_params", request |-> "request",
     resolvers |-> resolvers]

\* SubscriptionHandler.context
Subscription_context == [request |-> "request", resolvers |-> resolvers]

\* SubscriptionHandler.initialize(sub_server, resolvers)
Subscription_initialize ==
    /\ kind = "SubscriptionHandler"
    /\ state = "REQUEST"
    /\ queueObj' = queueObj + 1
    /\ queue' = <<>>
    /\ resolvers' = "registry"
    /\ state' = "INITIALIZED"
    /\ raised' = ""
    /\ UNCHANGED <<requestVars, peerVars, profileVars,
                   cached, currentUser, authLog, response,
                   selected, tasks, sent, held, prodPc, consPc, received,
                   phase>>

\* SubscriptionHandler.get: the authenticated decorator, then
\* WebSocketHandler.get up to the choice of the sub-protocol.  tornado
\* asserts that the chosen sub-protocol was offered: with assertions
\* compiled in the handshake dies there, without them it goes on.
Subscription_get ==
    /\ kind = "SubscriptionHandler"
    /\ state = "INITIALIZED"
    /\ ReadCurrentUser
    /\ IF websockets_authenticated # NoResponse
       THEN /\ response' = websockets_authenticated
            /\ state' = "ERROR"
            /\ selected' = selected
       ELSE /\ selected' = select_subprotocol(offered)
            /\ IF select_subprotocol(offered) \in Range(offered)
               THEN /\ state' = "NEGOTIATED"
                    /\ response' = SwitchingProtocols
               ELSE \E asserting \in BOOLEAN :
                       IF asserting
                       THEN /\ state' = "ERROR"
                            /\ response' = [status |-> 500,
                                            reason |-> "AssertionError"]
                       ELSE /\ state' = "NEGOTIATED"
                            /\ response' = SwitchingProtocols
    /\ raised' = ""
    /\ UNCHANGED <<requestVars, peerVars, profileVars,
                   queueObj, queue, resolvers, tasks, sent,
                   held, prodPc, consPc, received, phase>>

\* An open that makes the connection's queue itself.
OpenQueueAnew ==
    /\ queueObj' = queueObj + 1
    /\ queue' = <<>>

\* What SubscriptionHandler.open does to self.queue: nothing.
OpenQueue == UNCHANGED <<queueObj, queue>>

\* SubscriptionHandler.open: the authenticated decorator, then the spawn.
Subscription_open ==
    /\ kind = "SubscriptionHandler"
    /\ state = "NEGOTIATED"
    /\ ReadCurrentUser
    /\ IF websockets_authenticated # NoResponse
       THEN /\ response' = websockets_authenticated
            /\ state' = "ERROR"
            /\ tasks' = tasks
       ELSE /\ tasks' = Append(tasks, [fn |-> "subscription_server.handle",
                                       context |-> Subscription_context])
            /\ state' = "OPEN"
            /\ response' = response
    /\ OpenQueue
    /\ raised' = ""
    /\ UNCHANGED <<requestVars, peerVars, profileVars,
                   resolvers, selected, sent, held, prodPc,
                   consPc, received, phase>>

\* An on_message that schedules an engine task for the frame it enqueues.
on_message_spawning ==
    /\ kind = "SubscriptionHandler"
    /\ state = "OPEN"
    /\ prodPc = "idle"
    /\ sent < MaxFrames
    /\ sent' = sent + 1
    /\ IF full(queue)
       THEN PutWhenFull(sent + 1)
       ELSE /\ put_nowait(sent + 1)
            /\ UNCHANGED <<held, prodPc>>
    /\ phase' = IF phase = "filling" THEN "filling" ELSE "mixed"
    /\ raised' = ""
    /\ tasks' = Append(tasks, [fn |-> "subscription_server.handle",
                               context |-> [request |-> "request",
                                            resolvers |-> resolvers]])
    /\ UNCHANGED <<requestVars, peerVars, profileVars,
                   state, cached, currentUser, authLog,
                   response, queueObj, resolvers, selected, received>>

\* SubscriptionHandler.on_message(message): await self.queue.put(message),
\* up to its return or to the point where it parks on the full queue.
\* tornado awaits one on_message before it reads the next frame.
on_message ==
    /\ kind = "SubscriptionHandler"
    /\ state = "OPEN"
    /\ prodPc = "idle"
    /\ sent < MaxFrames
    /\ sent' = sent + 1
    /\ IF full(queue)
       THEN PutWhenFull(sent + 1)
       ELSE /\ put_nowait(sent + 1)
            /\ UNCHANGED <<held, prodPc>>
    /\ phase' = IF phase = "filling" THEN "filling" ELSE "mixed"
    /\ raised' = ""
    /\ UNCHANGED <<requestVars, peerVars, profileVars,
                   state, cached, currentUser, authLog,
                   response, queueObj, resolvers, selected, tasks, received>>

\* on_message resumed after a get woke it: put's loop tests full() again.
on_message_resume ==
    /\ prodPc = "woken"
    /\ IF full(queue)
       THEN /\ prodPc' = "waiting"
            /\ UNCHANGED <<queue, consPc, held>>
       ELSE /\ put_nowait(held)
            /\ held' = 0
            /\ prodPc' = "idle"
    /\ raised' = ""
    /\ UNCHANGED <<requestVars, peerVars, profileVars,
                   state, cached, currentUser, authLog,
                   response, queueObj, resolvers, selected, tasks, sent,
                   received, phase>>

\* SubscriptionHandler.recv(): await self.queue.get(), called by the engine
\* task, up to its return or to the point where it parks on the empty queue.
recv ==
    /\ Len(tasks) > 0
    /\ kind = "SubscriptionHandler"
    /\ consPc = "idle"
    /\ IF empty(queue)
       THEN /\ consPc' = "waiting"
            /\ UNCHANGED <<queue, received, prodPc>>
       ELSE /\ get_nowait
            /\ consPc' = consPc
    /\ phase' = IF phase = "filling" THEN "draining" ELSE phase
    /\ raised' = ""
    /\ UNCHANGED <<requestVars, peerVars, profileVars,
                   state, cached, currentUser, authLog,
                   response, queueObj, resolvers, selected, tasks, sent,
                   held>>

\* recv resumed after a put woke it: get's loop tests empty() again.
recv_resume ==
    /\ consPc = "woken"
    /\ IF empty(queue)
       THEN /\ consPc' = "waiting"
            /\ UNCHANGED <<queue, received, prodPc>>
       ELSE /\ get_nowait
            /\ consPc' = "idle"
    /\ raised' = ""
    /\ UNCHANGED <<requestVars, peerVars, profileVars,
                   state, cached, currentUser, authLog,
                   response, queueObj, resolvers, selected, tasks, sent,
                   held, phase>>

\* A recv_nowait that awaits the queue as recv does.
recv_nowait_awaiting == recv

\* SubscriptionHandler.recv_nowait(): self.queue.get_nowait()
recv_nowait ==
    /\ Len(tasks) > 0
    /\ kind = "SubscriptionHandler"
    /\ consPc = "idle"
    /\ IF empty(queue)
       THEN /\ raised' = "QueueEmpty"
            /\ UNCHANGED <<queue, received, prodPc>>
       ELSE /\ get_nowait
            /\ raised' = ""
    /\ phase' = IF phase = "filling" THEN "draining" ELSE phase
    /\ UNCHANGED <<requestVars, peerVars, profileVars,
                   state, cached, currentUser, authLog,
                   response, queueObj, resolvers, selected, tasks, sent,
                   held, consPc>>

\* subscription_server.handle raises while it runs.  open handed it to
\* IOLoop.spawn_callback and keeps nothing of it: the loop logs the
\* exception and the task is gone; the handler is not told and writes
\* nothing.
engine_error ==
    /\ Len(tasks) > 0
    /\ kind = "SubscriptionHandler"
    /\ consPc = "idle"
    /\ consPc' = "dead"
    /\ raised' = ""
    /\ UNCHANGED <<requestVars, peerVars, profileVars,
                   state, cached, currentUser, authLog,
                   response, queueObj, queue, resolvers, selected, tasks,
                   sent, held, prodPc, received, phase>>

\* The transport closes the connection.  SubscriptionHandler defines no
\* on_close, so nothing of the handler changes but the connection's state.
close ==
    /\ kind = "SubscriptionHandler"
    /\ state = "OPEN"
    /\ state' = "CLOSED"
    /\ raised' = ""
    /\ UNCHANGED <<requestVars, peerVars, profileVars,
                   cached, currentUser, authLog, response,
                   queueObj, queue, resolvers, selected, tasks, sent, held,
                   prodPc, consPc, received, phase>>

\* ------------------------------------------------ UIServerGraphQLHandler

\* UIServerGraphQLHandler.context
GraphQL_context ==
    [graphql_params |-> "graphql_params", request |-> "request",
     resolvers |-> resolvers]

\* UIServerGraphQLHandler.initialize(schema, ..., **kwargs)
GraphQL_initialize ==
    /\ kind = "UIServerGraphQLHandler"
    /\ state = "REQUEST"
    /\ resolvers' = "registry"
    /\ state' = "INITIALIZED"
    /\ raised' = ""
    /\ UNCHANGED <<requestVars, peerVars, profileVars,
                   cached, currentUser, authLog, response,
                   queueObj, queue, selected, tasks, sent, held, prodPc,
                   consPc, received, phase>>

\* An authenticated method of the query handler that moves the request
\* from one stage to the next, or ends it with the decorator's rejection.
GraphQL_step(from, to) ==
    /\ kind = "UIServerGraphQLHandler"
    /\ state = from
    /\ ReadCurrentUser
    /\ IF web_authenticated # NoResponse
       THEN /\ response' = web_authenticated
            /\ state' = "DONE"
       ELSE /\ response' = response
            /\ state' = to
    /\ raised' = ""
    /\ UNCHANGED <<requestVars, peerVars, profileVars,
                   queueObj, queue, resolvers, selected, sent,
                   held, prodPc, consPc, received, phase>>

\* UIServerGraphQLHandler.prepare
GraphQL_prepare ==
    /\ GraphQL_step("INITIALIZED", "PREPARED")
    /\ tasks' = tasks

\* UIServerGraphQLHandler.run, up to its call of execute
GraphQL_run ==
    /\ GraphQL_step("PREPARED", "RUNNING")
    /\ tasks' = tasks

\* UIServerGraphQLHandler.execute: self.schema.execute(...)
GraphQL_execute ==
    /\ GraphQL_step("RUNNING", "EXECUTED")
    /\ tasks' = IF web_authenticated # NoResponse THEN tasks
                ELSE Append(tasks, [fn |-> "schema.execute",
                                    context |-> GraphQL_context])

\* ---------------------------------------------------- UserProfileHandler

\* UserProfileHandler.get: the decorator reads current_user, then the body
\* calls get_current_user() itself and writes the profile.
\* The dict the profile is built in: the resolver's own dict for a hub
\* user, a new one otherwise; then the 'owner' entry is set in it.
user_info ==
    IF baseUser.hub
    THEN [kind |-> "user", name |-> baseUser.name, server |-> "hub",
          owner |-> ME]
    ELSE [kind |-> "user", name |-> ME, server |-> "hostname", owner |-> ME]

\* The 'owner' entry of the resolver's object after the profile is built.
user_info_owner == IF baseUser.hub THEN ME ELSE principalOwner

UserProfile_get ==
    /\ kind = "UserProfileHandler"
    /\ state = "REQUEST"
    /\ cached' = current_user.cached
    /\ currentUser' = current_user.user
    /\ IF web_authenticated # NoResponse
       THEN /\ response' = web_authenticated
            /\ authLog' = authLog \o current_user.calls
       ELSE LET again == get_current_user(baseUser)
            IN  /\ authLog' = authLog \o current_user.calls \o again.calls
                /\ response' = IF again.error # NoResponse THEN again.error
                               ELSE [status |-> 200, reason |-> "OK"]
    /\ IF web_authenticated = NoResponse
          /\ get_current_user(baseUser).error = NoResponse
       THEN /\ principalOwner' = user_info_owner
            /\ written' = user_info
       ELSE UNCHANGED profileVars
    /\ state' = "DONE"
    /\ raised' = ""
    /\ UNCHANGED <<requestVars, peerVars, queueObj, queue, resolvers,
                   selected, tasks, sent, held, prodPc, consPc, received,
                   phase>>

\* ------------------------------------------------------- specifications

Next ==
    \/ Subscription_initialize
    \/ Subscription_get
    \/ Subscription_open
    \/ on_message
    \/ on_message_resume
    \/ recv
    \/ recv_resume
    \/ recv_nowait
    \/ engine_error
    \/ close
    \/ GraphQL_initialize
    \/ GraphQL_prepare
    \/ GraphQL_run
    \/ GraphQL_execute
    \/ UserProfile_get

Spec == Init /\ [][Next]_vars

\* The handlers, and subclasses of them whose _authorise refuses.
InitOverride ==
    /\ InitRequest
    /\ NoPeer
    /\ authoriser \in {"CylcAppHandler", "Refusing"}

SpecOverride == InitOverride /\ [][Next]_vars

\* The event loop runs every coroutine whose future has been resolved.
FairSpec ==
    /\ Spec
    /\ WF_vars(on_message_resume)
    /\ WF_vars(recv_resume)

\* One websocket connection of one resolved user who offers GRAPHQL_WS.
StreamInit ==
    /\ Init
    /\ kind = "SubscriptionHandler"
    /\ baseUser = [resolved |-> TRUE, name |-> "bob", hub |-> TRUE]
    /\ offered = <<GRAPHQL_WS, "foo">>

\* The steps of a websocket connection.
StreamNext ==
    \/ Subscription_initialize
    \/ Subscription_get
    \/ Subscription_open
    \/ on_message
    \/ on_message_resume
    \/ recv
    \/ recv_resume
    \/ recv_nowait
    \/ engine_error
    \/ close

\* A connection on which the event loop runs every coroutine whose future
\* has been resolved and the engine task, as long as it lives, calls recv
\* again.
LiveSpec ==
    /\ StreamInit
    /\ [][StreamNext]_vars
    /\ WF_vars(on_message_resume)
    /\ WF_vars(recv_resume)
    /\ WF_vars(recv)

\* ------------------------------------------- two connections, one process
\* A second SubscriptionHandler object, open in the same process.  Its
\* methods are the same code run on another self: self.queue is the Queue
\* its own initialize made.  Its frames are numbered -1, -2, ... in arrival
\* order.

connVars == <<state, cached, currentUser, authLog, response, queueObj,
              queue, resolvers, selected, tasks, sent, held, prodPc, consPc,
              received, phase>>

PeerFrames(n) == [i \in 1..n |-> 0 - i]

\* An on_message that puts into a queue shared by every handler object.
peer_on_message_shared ==
    /\ peerProdPc = "idle"
    /\ peerSent < peerBacklog + MaxPeerFrames
    /\ peerSent' = peerSent + 1
    /\ IF full(queue)
       THEN /\ peerHeld' = 0 - (peerSent + 1)
            /\ peerProdPc' = "waiting"
            /\ UNCHANGED <<queue, consPc>>
       ELSE /\ queue' = QueuePut(queue, 0 - (peerSent + 1))
            /\ consPc' = WakeUp(consPc)
            /\ UNCHANGED <<peerHeld, peerProdPc>>
    /\ raised' = ""
    /\ UNCHANGED <<requestVars, profileVars, state, cached, currentUser,
                   authLog, response, queueObj, resolvers, selected, tasks,
                   sent, held, prodPc, received, phase, peerBacklog,
                   peerQueue, peerConsPc, peerReceived>>

\* SubscriptionHandler.on_message on the second connection
peer_on_message ==
    /\ peerProdPc = "idle"
    /\ peerSent < peerBacklog + MaxPeerFrames
    /\ peerSent' = peerSent + 1
    /\ IF full(peerQueue)
       THEN /\ peerHeld' = 0 - (peerSent + 1)
            /\ peerProdPc' = "waiting"
            /\ UNCHANGED <<peerQueue, peerConsPc>>
       ELSE /\ peerQueue' = QueuePut(peerQueue, 0 - (peerSent + 1))
            /\ peerConsPc' = WakeUp(peerConsPc)
            /\ UNCHANGED <<peerHeld, peerProdPc>>
    /\ raised' = ""
    /\ UNCHANGED <<requestVars, profileVars, connVars, peerBacklog,
                   peerReceived>>

\* on_message on the second connection, resumed after a get woke it
peer_on_message_resume ==
    /\ peerProdPc = "woken"
    /\ IF full(peerQueue)
       THEN /\ peerProdPc' = "waiting"
            /\ UNCHANGED <<peerQueue, peerConsPc, peerHeld>>
       ELSE /\ peerQueue' = QueuePut(peerQueue, peerHeld)
            /\ peerConsPc' = WakeUp(peerConsPc)
            /\ peerHeld' = 0
            /\ peerProdPc' = "idle"
    /\ raised' = ""
    /\ UNCHANGED <<requestVars, profileVars, connVars, peerBacklog, peerSent,
                   peerReceived>>

\* Queue.get_nowait() on the second connection's queue, not empty
peer_get_nowait ==
    /\ peerReceived' = Append(peerReceived, QueueItem(peerQueue))
    /\ peerQueue' = QueueRest(peerQueue)
    /\ peerProdPc' = WakeUp(peerProdPc)

\* SubscriptionHandler.recv() called by the second connection's engine task
peer_recv ==
    /\ peerConsPc = "idle"
    /\ Len(peerReceived) < MaxPeerFrames
    /\ IF empty(peerQueue)
       THEN /\ peerConsPc' = "waiting"
            /\ UNCHANGED <<peerQueue, peerReceived, peerProdPc>>
       ELSE /\ peer_get_nowait
            /\ peerConsPc' = peerConsPc
    /\ raised' = ""
    /\ UNCHANGED <<requestVars, profileVars, connVars, peerBacklog, peerSent,
                   peerHeld>>

\* recv on the second connection, resumed after a put woke it
peer_recv_resume ==
    /\ peerConsPc = "woken"
    /\ IF empty(peerQueue)
       THEN /\ peerConsPc' = "waiting"
            /\ UNCHANGED <<peerQueue, peerReceived, peerProdPc>>
       ELSE /\ peer_get_nowait
            /\ peerConsPc' = "idle"
    /\ raised' = ""
    /\ UNCHANGED <<requestVars, profileVars, connVars, peerBacklog, peerSent,
                   peerHeld>>

\* SubscriptionHandler.recv_nowait() called by the second connection's
\* engine task
peer_recv_nowait ==
    /\ peerConsPc = "idle"
    /\ Len(peerReceived) < MaxPeerFrames
    /\ IF empty(peerQueue)
       THEN /\ raised' = "QueueEmpty"
            /\ UNCHANGED <<peerQueue, peerReceived, peerProdPc>>
       ELSE /\ peer_get_nowait
            /\ raised' = ""
    /\ UNCHANGED <<requestVars, profileVars, connVars, peerBacklog, peerSent,
                   peerHeld, peerConsPc>>

\* A websocket request as in StreamInit, arriving while a second connection
\* is open whose queue holds no frame yet or is one frame short of full.
PairInit ==
    /\ InitRequest
    /\ authoriser = "CylcAppHandler"
    /\ kind = "SubscriptionHandler"
    /\ baseUser = [resolved |-> TRUE, name |-> "bob", hub |-> TRUE]
    /\ offered = <<GRAPHQL_WS, "foo">>
    /\ peerBacklog \in {0, QueueMaxsize - 1}
    /\ peerQueue = PeerFrames(peerBacklog)
    /\ peerSent = peerBacklog
    /\ peerHeld = 0
    /\ peerProdPc = "idle"
    /\ peerConsPc = "idle"
    /\ peerReceived = <<>>

\* The steps of the two connections while both are open, in any order.
PairNext ==
    \/ Subscription_initialize
    \/ Subscription_get
    \/ Subscription_open
    \/ on_message
    \/ on_message_resume
    \/ recv
    \/ recv_resume
    \/ recv_nowait
    \/ peer_on_message
    \/ peer_on_message_resume
    \/ peer_recv
    \/ peer_recv_resume
    \/ peer_recv_nowait

PairSpec == PairInit /\ [][PairNext]_vars

\* ---------------------------------------------------------------- claims

\* The frames 1..n in arrival order.
Frames(n) == [i \in 1..n |-> i]

Gated == "authorise" \in Range(authLog)

Spawned == \E i \in 1..Len(tasks) : tasks[i].fn = "subscription_server.handle"

\* C1: while no more than 100 frames have been passed to on_message and the
\* consumer, if it has started, has only been draining what arrived before
\* its first call, no on_message call is parked or holds a frame, and the
\* frames returned so far followed by the frames still queued are exactly
\* the frames that arrived, in arrival order.
C1_FifoWithinCapacity ==
    (phase \in {"filling", "draining"} /\ sent <= QueueMaxsize) =>
        /\ prodPc = "idle"
        /\ held = 0
        /\ received \o queue = Frames(sent)

\* 100 frames arrived before the first recv and all 100 have been returned.
C1_Witness ==
    /\ phase = "draining"
    /\ sent = QueueMaxsize
    /\ received = Frames(QueueMaxsize)
    /\ queue = <<>>

\* C2: an on_message call made while the queue holds 100 frames and nothing
\* has been consumed parks holding its frame, leaving the queue as it was
\* and raising nothing; an on_message call is parked only while the queue is
\* full; a woken call that runs on completes by appending the frame it held;
\* and once the one consumer call after the 101st frame has returned and the
\* parked call has run on, the consumer has frame 1 and the queue holds the
\* 100 frames 2..101, frame 101 last.
C2_Backpressure ==
    /\ [][(sent' = sent + 1 /\ Len(queue) = QueueMaxsize /\ received = <<>>)
            => (/\ prodPc' = "waiting"
                /\ held' = sent'
                /\ queue' = queue
                /\ raised' = ""
                /\ state' = state)]_vars
    /\ [][(prodPc = "woken" /\ prodPc' # "woken")
            => (/\ prodPc' = "idle"
                /\ held' = 0
                /\ queue' = Append(queue, held))]_vars
    /\ [](prodPc = "waiting" => Len(queue) = QueueMaxsize)
    /\ []((/\ phase = "draining"
           /\ sent = QueueMaxsize + 1
           /\ Len(received) = 1
           /\ prodPc = "idle")
            => (/\ received = <<1>>
                /\ held = 0
                /\ Len(queue) = QueueMaxsize
                /\ queue[QueueMaxsize] = QueueMaxsize + 1
                /\ received \o queue = Frames(QueueMaxsize + 1)))

\* The 101st call parked, one recv returned frame 1, the call completed.
C2_Witness ==
    /\ phase = "draining"
    /\ sent = QueueMaxsize + 1
    /\ received = <<1>>
    /\ prodPc = "idle"
    /\ held = 0
    /\ Len(queue) = QueueMaxsize
    /\ queue[QueueMaxsize] = QueueMaxsize + 1

\* C3: in every state, the frames returned to the consumer, then the frames
\* in the queue, then the frame held by a parked or woken on_message call,
\* are exactly the frames passed to on_message, in arrival order: what the
\* consumer has is a prefix of what arrived and no frame is discarded.
C3_NoFrameLost ==
    /\ received \o queue \o (IF held # 0 THEN <<held>> ELSE <<>>)
         = Frames(sent)
    /\ (held # 0) = (prodPc # "idle")

\* Producer and consumer have interleaved and the producer is parked on a
\* full queue after frames were consumed.
C3_Witness ==
    /\ phase = "mixed"
    /\ prodPc = "waiting"
    /\ held = sent
    /\ Len(received) > 0
    /\ state = "OPEN"

\* C4: on a connection whose base get_current_user returns no user, the
\* authorise gate is never invoked and subscription_server.handle is never
\* spawned.
C4_UnresolvedNeverGated ==
    (kind = "SubscriptionHandler" /\ baseUser = NoUser) =>
        (~Gated /\ ~Spawned)

\* C5: when _authorise refuses a resolved user, every run of the gate ends
\* the request with HTTP 403 'authorisation insufficient': the websocket
\* handshake chooses no sub-protocol and never reaches open, nothing is
\* handed to the engine (no handle task, no schema.execute), and the query
\* handler never gets past prepare.
C5_DeniedNeverReachesEngine ==
    (baseUser.resolved /\ ~Decision(baseUser) /\ Gated) =>
        /\ response = [status |-> 403,
                       reason |-> "authorisation insufficient"]
        /\ state = (IF kind = "SubscriptionHandler" THEN "ERROR" ELSE "DONE")
        /\ selected = ""
        /\ tasks = <<>>
        /\ ~cached
        /\ authLog = <<"resolve", "authorise">>

\* A refused websocket handshake of a resolved user.
C5_Witness ==
    /\ kind = "SubscriptionHandler"
    /\ baseUser.resolved
    /\ ~Decision(baseUser)
    /\ state = "ERROR"
    /\ response.status = 403
    /\ Gated

\* C6: a connection of a resolved user whose handshake does not offer
\* GRAPHQL_WS is rejected: no sub-protocol is selected for it, it never
\* opens, and when it is rejected no queue has been created for it.
C6_UnofferedTokenRejected ==
    (/\ kind = "SubscriptionHandler"
     /\ baseUser.resolved
     /\ GRAPHQL_WS \notin Range(offered)) =>
        /\ selected = ""
        /\ state \notin {"NEGOTIATED", "OPEN", "CLOSED"}
        /\ (state = "ERROR" => queueObj = 0)

\* C7: once the connection is closed, an engine task parked in recv on the
\* empty queue is eventually unparked, and so is an on_message call parked
\* on the full queue.
C7_CloseUnblocksWaiters ==
    /\ (state = "CLOSED" /\ consPc = "waiting") ~> (consPc # "waiting")
    /\ (state = "CLOSED" /\ prodPc = "waiting") ~> (prodPc # "waiting")

\* C8: for every connection and request the base get_current_user and the
\* authorise gate each run at most once, resolution first, and exactly once
\* as soon as a gated entry point has run; no later entry point and no
\* on_message runs them again.
C8_ResolvedAndGatedOnce ==
    /\ authLog \in {<<>>, <<"resolve", "authorise">>}
    /\ (state \notin {"REQUEST", "INITIALIZED"}
          => authLog = <<"resolve", "authorise">>)

C10_AllowsEveryPrincipal ==
    (baseUser.resolved /\ Gated) =>
          /\ _authorise(baseUser)
          /\ authorise(baseUser) = NoResponse
          /\ response.status # 403
          /\ cached
          /\ currentUser = baseUser

\* A connection opened for a user who is not the server's own account.
C10_Witness ==
    /\ baseUser.resolved
    /\ baseUser.name # ME
    /\ Gated
    /\ state = "OPEN"
    /\ Spawned

\* C11: every recv_nowait call returns at once, leaving the engine task
\* running (never parked): on an empty queue it raises QueueEmpty and leaves
\* the queue and the frames returned so far as they were; on a queue that is
\* not empty it returns the oldest queued frame and removes it, raising
\* nothing.
C11_RecvNowaitNeverSuspends ==
    [][recv_nowait =>
        /\ consPc' = "idle"
        /\ IF Len(queue) = 0
           THEN /\ raised' = "QueueEmpty"
                /\ queue' = queue
                /\ received' = received
           ELSE /\ raised' = ""
                /\ received' = Append(received, queue[1])
                /\ queue' = SubSeq(queue, 2, Len(queue))]_vars

\* recv_nowait has just raised QueueEmpty on a queue frames went through.
C11_Witness ==
    /\ raised = "QueueEmpty"
    /\ queue = <<>>
    /\ consPc = "idle"
    /\ Len(received) > 0
    /\ Len(received) = sent

\* C17: in every reachable state the queue of a connection holds between 0
\* and 100 frames, whatever on_message, recv and recv_nowait calls were made.
C17_QueueLengthBounded ==
    /\ Len(queue) >= 0
    /\ Len(queue) <= QueueMaxsize

\* The queue is full, a further on_message is parked on it, and the
\* consumer has been taking frames.
C17_Witness ==
    /\ Len(queue) = QueueMaxsize
    /\ prodPc = "waiting"
    /\ held = sent
    /\ Len(received) > 0

\* The first frame, the frame that fills the queue, the first frame that
\* finds it full and the last frame of a behaviour.
SampleFrames == {1, QueueMaxsize, QueueMaxsize + 1, MaxFrames}

\* C12: on a connection that stays open and whose engine task lives and
\* keeps calling recv, an on_message call parked on the full queue eventually
\* completes, and every frame passed to on_message is eventually returned to
\* the consumer.
C12_BackpressureNeverDeadlocks ==
    /\ (prodPc = "waiting")
         ~> (prodPc = "idle" \/ consPc = "dead" \/ state = "CLOSED")
    /\ \A k \in SampleFrames :
         (sent >= k)
           ~> (Len(received) >= k \/ consPc = "dead" \/ state = "CLOSED")

\* On an open connection with a live engine task, the call that was parked
\* with frame 101 has completed and frame 101 has reached the consumer.
C12_Witness ==
    /\ state = "OPEN"
    /\ consPc # "dead"
    /\ phase = "draining"
    /\ sent = QueueMaxsize + 1
    /\ received = Frames(QueueMaxsize + 1)
    /\ prodPc = "idle"

\* C15: after the engine task has raised, the connection goes on serving:
\* the frames passed to on_message and not yet returned are still consumed,
\* so that, unless the transport closes, the consumer eventually has every
\* frame that arrived.
C15_EngineErrorKeepsConsuming ==
    (consPc = "dead" /\ Len(received) < sent)
      ~> (Len(received) = sent \/ state = "CLOSED")

\* C13: a connection has no engine task before its open event and exactly
\* one from then on: subscription_server.handle is scheduled once, by open,
\* after the gate has run and passed for the connection's resolved user;
\* while there is no task no frame has been consumed; and on_message, recv
\* and recv_nowait never schedule another.
C13_OneEngineTaskPerConnection ==
    (kind = "SubscriptionHandler") =>
        /\ Len(tasks) <= 1
        /\ (Len(tasks) = 1) = (state \in {"OPEN", "CLOSED"})
        /\ (Len(tasks) = 1 =>
              /\ tasks[1].fn = "subscription_server.handle"
              /\ authLog = <<"resolve", "authorise">>
              /\ cached
              /\ currentUser = baseUser
              /\ currentUser.resolved
              /\ authorise(currentUser) = NoResponse)
        /\ (Len(tasks) = 0 =>
              /\ received = <<>>
              /\ consPc = "idle"
              /\ sent = 0)

\* A streaming connection whose one engine task has consumed every frame
\* that arrived and is parked in recv.
C13_Witness ==
    /\ state = "OPEN"
    /\ Len(tasks) = 1
    /\ sent >= 2
    /\ Len(received) = sent
    /\ consPc = "waiting"

\* C18: the context handed to subscription_server.handle at open has
\* exactly the entries request and resolvers, the one handed to
\* schema.execute has exactly graphql_params, request and resolvers, and in
\* both resolvers is the registry given to initialize; once a handler is
\* initialised self.resolvers is that registry and no later step changes
\* it; and no later step changes a call already handed to the engine.
C18_ContextsFixed ==
    /\ [](\A i \in 1..Len(tasks) :
            /\ DOMAIN tasks[i].context =
                 (IF tasks[i].fn = "subscription_server.handle"
                  THEN {"request", "resolvers"}
                  ELSE {"graphql_params", "request", "resolvers"})
            /\ tasks[i].context.request = "request"
            /\ tasks[i].context.resolvers = "registry")
    /\ []((kind # "UserProfileHandler" /\ state # "REQUEST")
            => resolvers = "registry")
    /\ [][resolvers # "unset" => resolvers' = resolvers]_vars
    /\ [][/\ Len(tasks') >= Len(tasks)
          /\ \A i \in 1..Len(tasks) : tasks'[i] = tasks[i]]_vars

\* A context was handed out at open and on_message, recv and recv_nowait
\* have run since.
C18_Witness ==
    /\ kind = "SubscriptionHandler"
    /\ Len(tasks) = 1
    /\ tasks[1].context = [request |-> "request", resolvers |-> "registry"]
    /\ sent > 0
    /\ Len(received) > 0
    /\ raised = "QueueEmpty"
    /\ resolvers = "registry"

\* C14: two connections open in one process have separate queues.  In
\* every state each connection's returned, queued and held frames are
\* exactly the frames passed to its own on_message, in arrival order, so no
\* frame of one is ever returned by the other's recv or recv_nowait; and an
\* on_message call on either connection completes at once, enqueueing its
\* frame, whenever that connection's own queue is not full, however full
\* the other one is.
C14_ConnectionsIsolated ==
    /\ [](/\ received \o queue \o (IF held # 0 THEN <<held>> ELSE <<>>)
              = Frames(sent)
          /\ peerReceived \o peerQueue
               \o (IF peerHeld # 0 THEN <<peerHeld>> ELSE <<>>)
              = PeerFrames(peerSent))
    /\ [][(peerSent' = peerSent + 1 /\ Len(peerQueue) < QueueMaxsize)
            => /\ peerProdPc' = "idle"
               /\ peerHeld' = 0
               /\ peerQueue' = Append(peerQueue, 0 - peerSent')]_vars
    /\ [][(sent' = sent + 1 /\ Len(queue) < QueueMaxsize)
            => /\ prodPc' = "idle"
               /\ held' = 0
               /\ queue' = Append(queue, sent')]_vars
    /\ [][/\ peerSent' # peerSent => UNCHANGED <<queue, received, held,
                                                 prodPc, consPc>>
          /\ peerReceived' # peerReceived
               => UNCHANGED <<queue, received, held, prodPc, consPc>>
          /\ sent' # sent => UNCHANGED <<peerQueue, peerReceived, peerHeld,
                                         peerProdPc, peerConsPc>>
          /\ received' # received
               => UNCHANGED <<peerQueue, peerReceived, peerHeld, peerProdPc,
                              peerConsPc>>]_vars

\* The first connection's queue is full with an on_message call parked on
\* it, while the second connection has taken frames in on_message without
\* parking and its consumer has been given frames of its own.
C14_Witness ==
    /\ Len(queue) = QueueMaxsize
    /\ prodPc = "waiting"
    /\ peerBacklog = 0
    /\ peerSent = MaxPeerFrames
    /\ peerProdPc = "idle"
    /\ Len(peerReceived) > 0
    /\ Len(received) > 0

\* C16: the object the principal was resolved to is never modified: from
\* resolution on it has no entry that it did not have when the resolver
\* returned it, whatever handler serves the request.
C16_PrincipalNeverModified == principalOwner = ""

====
